---- MODULE Spec2Model ----
(***************************************************************************)
(* Model of two leaf classes of sklvq:                                     *)
(*   sklvq/activations/_soft_plus.py      SoftPlus (Soft+ activation)      *)
(*   sklvq/solvers/broyden_fletcher_goldfarb_shanno.py                     *)
(*                                        BroydenFletcherGoldfarbShanno    *)
(*                                                                         *)
(* Numbers are IEEE-754 binary64 values as numpy produces them.  A value   *)
(* is a record tagged by k:                                                *)
(*   "nan"                    not a number                                 *)
(*   "inf" / "ninf"           +infinity / -infinity                        *)
(*   "int",  n                the exactly representable integer n          *)
(*   "exp",  t                fl(e^t), finite, non-zero, t an integer # 0  *)
(*   "1pexp", t               fl(1 + fl(e^t)) where the sum differs from   *)
(*                            both of its operands                         *)
(*   "mul", c, a              fl(c * a), c an integer >= 2, a an "exp"     *)
(*   "log", a                 fl(ln a), a > 1                              *)
(*   "div", a, b              fl(a / b), 0 < a < c * b for the c of a      *)
(***************************************************************************)
EXTENDS Integers, Sequences, FiniteSets, TLC

VARIABLES inst, ctorArg, exc, lastOp, lastX, lastResult,
          given, solver, baseCall, solverExc, run

actVars == <<inst, ctorArg, exc, lastOp, lastX, lastResult>>
solverVars == <<given, solver, baseCall, solverExc, run>>
vars == <<inst, ctorArg, exc, lastOp, lastX, lastResult,
          given, solver, baseCall, solverExc, run>>

(***************************************************************************)
(* Bounds of the model.                                                    *)
(***************************************************************************)
MaxSize == 2
MaxRank == 1
MaxIter == 3

(***************************************************************************)
(* binary64 values.                                                        *)
(***************************************************************************)
NaN == [k |-> "nan"]
Inf == [k |-> "inf"]
NInf == [k |-> "ninf"]
IntVal(n) == [k |-> "int", n |-> n]

\* Largest integer t for which e^t is a finite binary64 (e^710 > DBL_MAX).
ExpMaxArg == 709
\* Integers t with t < -ExpMinArgNeg have fl(e^t) = 0.0 (below the least subnormal).
ExpMinArgNeg == 745
\* For |t| >= AbsorbArg the sum 1 + e^t rounds to its larger operand.
AbsorbArg == 37
\* 1000 * ln(DBL_MAX), rounded down.
LnMaxMilli == 709782

\* 1000 * ln(c) rounded up, for the integer factors the model multiplies by
\* (the steepness values 1 and 2; scaling by them is exact in binary64).
LnMilli(c) == CASE c = 1 -> 0
                [] c = 2 -> 694

IsNaN(v) == v.k = "nan"
IsInf(v) == v.k \in {"inf", "ninf"}
IsFinite(v) == ~IsNaN(v) /\ ~IsInf(v)

\* Sign of a value as Python's comparison with 0 sees it: 1, 0, -1; 2 for NaN
\* (every comparison with NaN is False).
Sign(v) == CASE v.k = "nan" -> 2
             [] v.k = "inf" -> 1
             [] v.k = "ninf" -> -1
             [] v.k = "int" -> IF v.n > 0 THEN 1 ELSE IF v.n = 0 THEN 0 ELSE -1
             [] OTHER -> 1

\* Variant of LeqZero: the guard written  beta < 0.
LtZero(v) == Sign(v) = -1

\* Python's  v <= 0.
LeqZero(v) == Sign(v) \in {0, -1}
\* Python's  v > 0.
GtZero(v) == Sign(v) = 1

\* numpy multiply, for an integer or NaN left operand.
Mul(a, b) ==
    CASE IsNaN(a) \/ IsNaN(b) -> NaN
      [] a.k = "int" /\ b.k = "int" -> IntVal(a.n * b.n)
      [] a.k = "int" /\ IsInf(b) ->
            IF a.n = 0 THEN NaN
            ELSE IF (a.n > 0) = (b.k = "inf") THEN Inf ELSE NInf
      [] a.k = "int" /\ b.k = "exp" ->
            IF a.n = 1 THEN b
            ELSE IF a.n = 0 THEN IntVal(0)
            ELSE IF 1000 * b.t + LnMilli(a.n) > LnMaxMilli THEN Inf
            ELSE [k |-> "mul", c |-> a.n, a |-> b]
      [] OTHER -> NaN

\* numpy exp.
Exp(v) ==
    CASE IsNaN(v) -> NaN
      [] v.k = "inf" -> Inf
      [] v.k = "ninf" -> IntVal(0)
      [] v.k = "int" ->
            IF v.n > ExpMaxArg THEN Inf
            ELSE IF v.n < -ExpMinArgNeg THEN IntVal(0)
            ELSE IF v.n = 0 THEN IntVal(1)
            ELSE [k |-> "exp", t |-> v.n]
      [] OTHER -> NaN

\* numpy add of the integer 1 and a value.
AddOne(v) ==
    CASE IsNaN(v) -> NaN
      [] v.k = "inf" -> Inf
      [] v.k = "ninf" -> NInf
      [] v.k = "int" -> IntVal(1 + v.n)
      [] v.k = "exp" ->
            IF v.t <= -AbsorbArg THEN IntVal(1)
            ELSE IF v.t >= AbsorbArg THEN v
            ELSE [k |-> "1pexp", t |-> v.t]
      [] OTHER -> NaN

\* numpy log.
Log(v) ==
    CASE IsNaN(v) -> NaN
      [] v.k = "inf" -> Inf
      [] v.k = "ninf" -> NaN
      [] v.k = "int" ->
            IF v.n < 0 THEN NaN
            ELSE IF v.n = 0 THEN NInf
            ELSE IF v.n = 1 THEN IntVal(0)
            ELSE [k |-> "log", a |-> v]
      [] v.k = "exp" ->
            IF v.t > 0 THEN [k |-> "log", a |-> v] ELSE NaN
      [] v.k = "1pexp" -> [k |-> "log", a |-> v]
      [] OTHER -> NaN

\* numpy true_divide, for the operands SoftPlus.gradient produces.
Div(a, b) ==
    CASE IsNaN(a) \/ IsNaN(b) -> NaN
      [] IsInf(a) /\ IsInf(b) -> NaN
      [] IsInf(a) -> a
      [] IsInf(b) -> IntVal(0)
      [] a = IntVal(0) /\ b # IntVal(0) -> IntVal(0)
      [] b = IntVal(1) -> a
      [] a = b -> IntVal(1)
      [] a.k = "mul" /\ a.c = 2 /\ a.a = b -> IntVal(a.c)
      [] OTHER -> [k |-> "div", a |-> a, b |-> b]

(***************************************************************************)
(* numpy arrays: a shape and the elements in row-major order.              *)
(***************************************************************************)
RECURSIVE Prod(_)
Prod(s) == IF s = <<>> THEN 1 ELSE Head(s) * Prod(Tail(s))

\* Variant of NpExp: every element computed from the first element.
NpExpOfFirst(arr) ==
    [shape |-> arr.shape,
     data  |-> [i \in 1..Len(arr.data) |-> Exp(arr.data[1])]]

\* The numpy ufuncs the class uses.  Each works element by element and
\* returns an array of its operand's shape; a scalar operand is broadcast.
NpExp(arr) ==
    [shape |-> arr.shape,
     data  |-> [i \in 1..Len(arr.data) |-> Exp(arr.data[i])]]

NpLog(arr) ==
    [shape |-> arr.shape,
     data  |-> [i \in 1..Len(arr.data) |-> Log(arr.data[i])]]

NpAddOne(arr) ==
    [shape |-> arr.shape,
     data  |-> [i \in 1..Len(arr.data) |-> AddOne(arr.data[i])]]

NpScale(c, arr) ==
    [shape |-> arr.shape,
     data  |-> [i \in 1..Len(arr.data) |-> Mul(c, arr.data[i])]]

NpDivide(a, b) ==
    [shape |-> a.shape,
     data  |-> [i \in 1..Len(a.data) |-> Div(a.data[i], b.data[i])]]

(***************************************************************************)
(* SoftPlus.                                                               *)
(***************************************************************************)
Unset == [k |-> "unset"]
NoArg == [k |-> "noarg"]
NoExc == [type |-> "none"]
NoArray == [shape |-> <<>>, data |-> <<>>]

\* SoftPlus.__call__: np.log(1 + np.exp(self.beta * x))
SoftPlusCall(self, x) == NpLog(NpAddOne(NpExp(NpScale(self.beta, x))))

\* SoftPlus.gradient: exp = np.exp(self.beta * x);
\*                    (self.beta * exp) / (1 + exp)
SoftPlusGradient(self, x) ==
    LET exp == NpExp(NpScale(self.beta, x))
    IN  NpDivide(NpScale(self.beta, exp), NpAddOne(exp))

\* str.format of a number, as "{}".format(beta) renders it.
Format(v) == CASE v.k = "int" -> ToString(v.n)
               [] v.k = "nan" -> "nan"
               [] v.k = "inf" -> "inf"
               [] v.k = "ninf" -> "-inf"

\* The ValueError of SoftPlus.__init__; the message is kept as its pieces.
BetaError(typeName, beta) ==
    [type |-> "ValueError",
     msg  |-> <<"The activation function ", typeName,
                " expects beta > 0, but got beta = ", Format(beta)>>]

\* Inputs.
BetaArgs == {NoArg, IntVal(-1), IntVal(0), IntVal(2), NaN}
XVals == {-40, 0, 1, 40, 1000}
Shapes == {s \in UNION {[1..r -> 1..MaxSize] : r \in 0..MaxRank} :
              Prod(s) <= MaxSize}
Arrays == UNION {[shape : {s}, data : [1..Prod(s) -> {IntVal(n) : n \in XVals}]] :
                    s \in Shapes}

Constructed == inst.beta # Unset /\ exc = NoExc

\* SoftPlus.__init__(self, beta=1)
SoftPlusInit(arg) ==
    LET beta == IF arg = NoArg THEN IntVal(1) ELSE arg
    IN  /\ ctorArg' = arg
        /\ IF LeqZero(beta)
           THEN /\ exc' = BetaError("SoftPlus", beta)
                /\ inst' = [beta |-> Unset]
           ELSE /\ exc' = NoExc
                /\ inst' = [beta |-> beta]
        /\ lastOp' = "none"
        /\ lastX' = NoArray
        /\ lastResult' = NoArray
        /\ UNCHANGED solverVars

\* A call of the instance: value(x).
Value(x) ==
    /\ Constructed
    /\ lastOp' = "value"
    /\ lastX' = x
    /\ lastResult' = SoftPlusCall(inst, x)
    /\ UNCHANGED <<inst, ctorArg, exc>>
    /\ UNCHANGED solverVars

\* A call of gradient(x).
Gradient(x) ==
    /\ Constructed
    /\ lastOp' = "gradient"
    /\ lastX' = x
    /\ lastResult' = SoftPlusGradient(inst, x)
    /\ UNCHANGED <<inst, ctorArg, exc>>
    /\ UNCHANGED solverVars

(***************************************************************************)
(* BroydenFletcherGoldfarbShanno.                                          *)
(***************************************************************************)
None == "None"
NoCall == [made |-> FALSE]
NoSolver == [built |-> FALSE]
NoArgs == [given |-> FALSE]
Idle == [state |-> "idle"]

\* An objective: a callable with a gradient method.
Objectives == {"objective_a", "objective_b"}
GradientOf(objective) == <<objective, "gradient">>

\* The keyword options a caller may pass, with the values the model draws.
OptionValues == [jac      |-> {None, "user_jac"},
                 callback |-> {"user_callback"},
                 tol      |-> {"tol_1"},
                 method   |-> {"CG"}]
OptionNames == DOMAIN OptionValues
Kwargs == UNION {{kw \in [names -> UNION {OptionValues[n] : n \in names}] :
                     \A n \in names : kw[n] \in OptionValues[n]} :
                 names \in SUBSET OptionNames}

\* Variant of KeywordClash: a repeated keyword goes unnoticed.
KeywordClashIgnored(explicit, kwargs) == FALSE

\* Variant of MergeKeywords: only the explicit keywords arrive.
MergeKeywordsExplicitOnly(explicit, kwargs) ==
    [n \in DOMAIN explicit |-> explicit[n]]

\* Python's binding of  f(..., name=value, **kwargs): a name given both
\* explicitly and in kwargs is a TypeError, otherwise the two are merged.
KeywordClash(explicit, kwargs) == DOMAIN explicit \cap DOMAIN kwargs # {}
MergeKeywords(explicit, kwargs) ==
    [n \in DOMAIN explicit \cup DOMAIN kwargs |->
        IF n \in DOMAIN explicit THEN explicit[n] ELSE kwargs[n]]

\* The keywords BroydenFletcherGoldfarbShanno.__init__ writes out itself.
ExplicitKeywords == [method |-> "BFGS"]

\* Variant of ForwardKeywords: the jac option is not passed on.
ForwardKeywordsWithoutJac(kwargs) ==
    [n \in (DOMAIN kwargs \cup {"method"}) \ {"jac"} |->
        IF n = "method" THEN "BFGS" ELSE kwargs[n]]

\* The keywords the base initializer receives:  method="BFGS", **kwargs.
ForwardKeywords(kwargs) == MergeKeywords(ExplicitKeywords, kwargs)

\* ScipyBaseSolver.__init__(self, objective, method, **kwargs): the method is
\* kept, the options default jac to the objective's gradient method and are
\* then overridden by the caller's options.
ScipyBaseSolverInit(objective, keywords) ==
    LET rest == [n \in DOMAIN keywords \ {"method"} |-> keywords[n]]
        defaults == [jac |-> GradientOf(objective)]
    IN  [built     |-> TRUE,
         objective |-> objective,
         method    |-> keywords["method"],
         params    |-> MergeKeywords(rest, defaults)]

\* BroydenFletcherGoldfarbShanno.__init__(self, objective, **kwargs):
\*   super().__init__(objective, method="BFGS", **kwargs)
BFGSInit(objective, kwargs) ==
    /\ run' = Idle
    /\ given' = [given |-> TRUE, objective |-> objective, kwargs |-> kwargs]
    /\ IF KeywordClash(ExplicitKeywords, kwargs)
       THEN /\ solverExc' = [type |-> "TypeError", keyword |-> "method"]
            /\ baseCall' = NoCall
            /\ solver' = NoSolver
       ELSE /\ solverExc' = NoExc
            /\ baseCall' = [made      |-> TRUE,
                            objective |-> objective,
                            keywords  |-> ForwardKeywords(kwargs)]
            /\ solver' = ScipyBaseSolverInit(objective, ForwardKeywords(kwargs))
    /\ UNCHANGED actVars

\* Variant of CallbackArgs: the richer signature of the non-scipy solvers.
CallbackArgsWithState(xk) == <<xk, "state">>

\* The arguments one invocation of the callback receives: callback(xk).
CallbackArgs(xk) == <<xk>>

\* ScipyBaseSolver.solve: the call of scipy.optimize.minimize with the
\* solver's method and options; the iterate starts at the initial point.
MinimizeStart ==
    /\ solver.built
    /\ run.state \in {"idle", "done"}
    /\ run' = [state  |-> "running",
               method |-> solver.method,
               jac    |-> solver.params["jac"],
               iter   |-> 0,
               calls  |-> <<>>]
    /\ UNCHANGED <<given, solver, baseCall, solverExc>>
    /\ UNCHANGED actVars

\* One iteration of the optimizer: a new iterate xk, then callback(xk).
MinimizeIterate ==
    /\ run.state = "running"
    /\ run.iter < MaxIter
    /\ run' = [run EXCEPT
                 !.iter = @ + 1,
                 !.calls = IF "callback" \in DOMAIN solver.params
                           THEN Append(@, CallbackArgs(run.iter + 1))
                           ELSE @]
    /\ UNCHANGED <<given, solver, baseCall, solverExc>>
    /\ UNCHANGED actVars

\* The optimizer returns (converged, or out of iterations).
MinimizeReturn ==
    /\ run.state = "running"
    /\ run' = [run EXCEPT !.state = "done"]
    /\ UNCHANGED <<given, solver, baseCall, solverExc>>
    /\ UNCHANGED actVars

(***************************************************************************)
(* Specifications.                                                         *)
(***************************************************************************)
Init ==
    /\ inst = [beta |-> Unset]
    /\ ctorArg = NoArg
    /\ exc = NoExc
    /\ lastOp = "none"
    /\ lastX = NoArray
    /\ lastResult = NoArray
    /\ given = NoArgs
    /\ solver = NoSolver
    /\ baseCall = NoCall
    /\ solverExc = NoExc
    /\ run = Idle

NextAct ==
    \/ \E arg \in BetaArgs : SoftPlusInit(arg)
    \/ \E x \in Arrays : Value(x)
    \/ \E x \in Arrays : Gradient(x)

NextSolver ==
    \/ \E objective \in Objectives, kwargs \in Kwargs : BFGSInit(objective, kwargs)
    \/ MinimizeStart
    \/ MinimizeIterate
    \/ MinimizeReturn

\* The activation function on its own, and the solver adapter on its own.
SpecAct == Init /\ [][NextAct]_vars
SpecSolver == Init /\ [][NextSolver]_vars

(***************************************************************************)
(* Properties of SoftPlus (checked under SpecAct).                         *)
(***************************************************************************)
\* The steepness the constructor works with: the argument, or the default 1.
CtorBeta == IF ctorArg = NoArg THEN IntVal(1) ELSE ctorArg

InSeq(e, seq) == \E i \in 1..Len(seq) : seq[i] = e

\* The product beta * x_i of the last call, for an integer steepness.
Arg(i) == inst.beta.n * lastX.data[i].n

Indices == 1..Len(lastX.data)

\* C1: constructing SoftPlus with any beta <= 0 (here 0 and -1) raises the
\* invalid-parameter error of this code base, a ValueError, whose message
\* carries the type name SoftPlus and the offending value, and the steepness
\* attribute is never assigned: no instance with a steepness results.
C1_NonPositiveBetaRejected ==
    (ctorArg # NoArg /\ ctorArg.k = "int" /\ ctorArg.n <= 0) =>
        /\ exc.type = "ValueError"
        /\ InSeq("SoftPlus", exc.msg)
        /\ InSeq(IF ctorArg.n = 0 THEN "0" ELSE "-1", exc.msg)
        /\ inst.beta = Unset
        /\ ~Constructed

C1_Witness ==
    /\ ctorArg = IntVal(-1)
    /\ exc.type = "ValueError"
    /\ exc.msg[4] = "-1"
    /\ inst.beta = Unset

\* C2: every successfully constructed instance keeps, through any sequence of
\* value and gradient calls, the steepness given at construction (1 when none
\* is given), and that steepness is > 0.
C2_SteepnessFixedAndPositive ==
    Constructed => (inst.beta = CtorBeta /\ GtZero(inst.beta))

C4_NoOverflow ==
    (lastOp # "none" /\ inst.beta.k = "int") =>
        \A i \in Indices :
            Arg(i) >= 1000 =>
                /\ lastOp = "value" => IsFinite(lastResult.data[i])
                /\ lastOp = "gradient" => lastResult.data[i] = inst.beta

\* The place of a result of value in the order of the reals: 0.0, then
\* ln(1 + e^t) by increasing t, then +infinity.
ValueRank(v) ==
    CASE v = IntVal(0) -> 0
      [] v.k = "log" /\ v.a.k = "int" -> AbsorbArg
      [] v.k = "log" /\ v.a.k \in {"exp", "1pexp"} -> AbsorbArg + v.a.t
      [] v.k = "inf" -> AbsorbArg + ExpMaxArg + 1

\* C5: for beta > 0 and finite x every element of value(x) is > 0, and value
\* is monotonically increasing in x.
C5_ValuePositiveMonotone ==
    (lastOp = "value" /\ GtZero(inst.beta)) =>
        /\ \A i \in Indices : GtZero(lastResult.data[i])
        /\ \A i, j \in Indices :
              lastX.data[i].n <= lastX.data[j].n =>
                  ValueRank(lastResult.data[i]) <= ValueRank(lastResult.data[j])

\* v < beta for a result v of gradient.
BelowBeta(v, beta) ==
    CASE v.k = "int" -> v.n < beta.n
      [] v.k \in {"div", "exp", "mul"} -> TRUE
      [] OTHER -> FALSE

\* C6: for beta > 0 and finite x every element of gradient(x) is
\* (beta * exp(beta * x_i)) / (1 + exp(beta * x_i)) and lies strictly
\* between 0 and beta; with beta = 2, gradient([0]) = 1.0.
C6_GradientBounded ==
    (lastOp = "gradient" /\ GtZero(inst.beta)) =>
        \A i \in Indices :
            LET e == Exp(Mul(inst.beta, lastX.data[i]))
                g == lastResult.data[i]
            IN  /\ g = Div(Mul(inst.beta, e), AddOne(e))
                /\ ~IsNaN(g)
                /\ GtZero(g)
                /\ BelowBeta(g, inst.beta)
                /\ (inst.beta = IntVal(2) /\ lastX.data[i] = IntVal(0)) =>
                      g = IntVal(1)

(***************************************************************************)
(* Properties of the BFGS adapter (checked under SpecSolver).              *)
(***************************************************************************)
\* C7: every adapter reaches the base solver with method = "BFGS" whatever
\* the objective and options; an option named method never yields an adapter
\* with another method: the construction fails and nothing is built.
C7_MethodFixed ==
    given.given =>
        IF "method" \in DOMAIN given.kwargs
        THEN /\ solverExc.type = "TypeError"
             /\ ~baseCall.made
             /\ ~solver.built
        ELSE /\ solverExc = NoExc
             /\ baseCall.made
             /\ baseCall.keywords["method"] = "BFGS"

C7_Witness ==
    /\ given.given
    /\ given.kwargs = [method |-> "CG"]
    /\ solverExc.type = "TypeError"
    /\ ~baseCall.made

\* C8: with a callback option, minimize invokes the callback once per
\* iteration, each time with one positional argument, the current iterate.
C8_CallbackPerIteration ==
    (run.state # "idle" /\ "callback" \in DOMAIN given.kwargs) =>
        /\ Len(run.calls) = run.iter
        /\ \A i \in 1..Len(run.calls) : run.calls[i] = <<i>>

C8_Witness ==
    /\ run.state = "done"
    /\ "callback" \in DOMAIN given.kwargs
    /\ run.iter = 2
    /\ run.calls = <<(<<1>>), (<<2>>)>>

\* C9: without a jac option the minimizer is handed the objective's gradient
\* method; with jac = None it is handed no gradient function, and the
\* objective's gradient method is not put in its place.
C9_JacDefault ==
    run.state # "idle" =>
        /\ "jac" \notin DOMAIN given.kwargs =>
              run.jac = GradientOf(given.objective)
        /\ ("jac" \in DOMAIN given.kwargs /\ given.kwargs["jac"] = None) =>
              run.jac = None

C9_Witness ==
    /\ run.state = "running"
    /\ "jac" \in DOMAIN given.kwargs
    /\ given.kwargs["jac"] = None
    /\ run.jac = None

\* C10: the constructor hands the objective and every option other than
\* method to the base solver unchanged: none dropped, renamed, added or
\* altered; method = "BFGS" is the one keyword it adds.
C10_OptionsForwarded ==
    baseCall.made =>
        /\ baseCall.objective = given.objective
        /\ DOMAIN baseCall.keywords = DOMAIN given.kwargs \cup {"method"}
        /\ \A n \in DOMAIN given.kwargs :
              baseCall.keywords[n] = given.kwargs[n]

C10_Witness ==
    /\ baseCall.made
    /\ given.kwargs = [jac |-> "user_jac", callback |-> "user_callback",
                       tol |-> "tol_1"]
    /\ baseCall.keywords = [method |-> "BFGS", jac |-> "user_jac",
                            callback |-> "user_callback", tol |-> "tol_1"]

====
